---- MODULE Spec2Model ----
(***************************************************************************)
(* A model of the debate orchestration of Debate_Agents:                   *)
(*   - DebateSystem.run_debate (debate_system.py), the session driver,     *)
(*     with DebateAgent.debate / _verify_and_fix_consistency               *)
(*     (agents/debate_agents.py) and JudgeAgent (agents/judge_agent.py);   *)
(*   - DebateTracker (debate_tracker.py);                                  *)
(*   - the QwenModel singleton (model_loader.py).                          *)
(* The language model is an oracle: every call of BaseAgent.generate is a  *)
(* step whose reply is chosen from a small set, or which raises.           *)
(* Texts are finite sequences of tokens.                                   *)
(***************************************************************************)
EXTENDS Integers, Sequences, FiniteSets, TLC

VARIABLES
    \* ---- DebateSystem.run_debate ----
    pc,                 \* position inside run_debate ("idle" outside of it)
    topic,              \* parameter topic
    max_rounds,         \* parameter max_rounds
    early_stop,         \* parameter early_stop
    round_num,          \* loop variable of `for round_num in range(1, max_rounds + 1)`
    debate_history,     \* self.debate_history
    history_for_agents, \* local history_for_agents
    view_a, view_b,     \* locals view_a, view_b
    last_eval,          \* local last_eval
    evaluation,         \* local evaluation
    guidance,           \* local guidance
    result,             \* the dictionary run_debate returns
    \* ---- agents ----
    hist_len,           \* Len(self.history) of agent_a, agent_b and the judge,
                        \* counted up to MaxHistory
    debate_records,     \* JudgeAgent.debate_records
    response,           \* local response of DebateAgent.debate
    verify_prompt,      \* local verify_prompt of _verify_and_fix_consistency
    calls,              \* the oracle calls of the current debate() call, in order
    lastPrompt,         \* the prompt of the latest oracle call
    log,                \* the steps of the current run_debate, in order
    \* ---- DebateTracker ----
    data,               \* DebateTracker.data
    added,              \* the add_speech calls made so far, per agent
    shown,              \* what get_structured_history_for_agent last returned
    \* ---- QwenModel ----
    q_instance,         \* QwenModel._instance
    q_model,            \* QwenModel._model
    q_tokenizer,        \* QwenModel._tokenizer
    q_device,           \* QwenModel._device
    hw,                 \* the device get_device() selects on this machine
    constructions,      \* the QwenModel() constructions made so far, in order
    \* ---- run_debate called again on the same DebateSystem ----
    earlier,            \* what the run_debate calls before the current one left behind
    \* ---- JudgeAgent.check_consensus ----
    consensus_response, \* local response: the oracle's reply
    consensus_return,   \* what check_consensus returned
    \* ---- utils.export_debate_result ----
    files,              \* the files written so far, with their serialisation
    export_call,        \* the latest export_debate_result call and its outcome
    \* ---- tools: SearchTool, RAGTool, and BaseAgent's use of them ----
    GOOGLE_SEARCH_AVAILABLE,  \* module flag of tools/search_tool.py
    RAG_AVAILABLE,      \* module flag of tools/rag_tool.py
    documents,          \* RAGTool.documents
    embeddings,         \* RAGTool.embeddings (None, or one row per document)
    index,              \* RAGTool.index (None, or the rows the index holds)
    tool_return,        \* the latest tool call and what it returned
    handed,             \* the documents given to add_documents since construction
                        \* or the last clear
    \* ---- DebateSystem.interactive_mode ----
    console_pc,         \* position of interactive_mode
    started,            \* the run_debate calls interactive_mode made, in order
    console_last        \* the latest pass of the loop: what was entered

driverVars == <<pc, topic, max_rounds, early_stop, round_num, debate_history,
                history_for_agents, view_a, view_b, last_eval, evaluation,
                guidance, result, hist_len, debate_records, response,
                verify_prompt, calls, lastPrompt, log>>
trackerVars == <<data, added, shown>>
loaderVars == <<q_instance, q_model, q_tokenizer, q_device, hw, constructions>>
judgeVars == <<consensus_response, consensus_return>>
exportVars == <<files, export_call>>
toolVars == <<GOOGLE_SEARCH_AVAILABLE, RAG_AVAILABLE, documents, embeddings, index,
              tool_return, handed>>
consoleVars == <<console_pc, started, console_last>>
vars == <<driverVars, earlier, trackerVars, loaderVars, judgeVars, exportVars,
          toolVars, consoleVars>>

\* what an action of one part leaves alone
notDriver == <<trackerVars, loaderVars, judgeVars, exportVars, toolVars, consoleVars>>
notTracker == <<driverVars, earlier, loaderVars, judgeVars, exportVars, toolVars,
                consoleVars>>
notLoader == <<driverVars, earlier, trackerVars, judgeVars, exportVars, toolVars,
               consoleVars>>
notJudge == <<driverVars, earlier, trackerVars, loaderVars, exportVars, toolVars,
              consoleVars>>
notExport == <<driverVars, earlier, trackerVars, loaderVars, judgeVars, toolVars,
               consoleVars>>
notTools == <<driverVars, earlier, trackerVars, loaderVars, judgeVars, exportVars,
              consoleVars>>
notConsole == <<driverVars, earlier, trackerVars, loaderVars, judgeVars, exportVars,
                toolVars>>

-----------------------------------------------------------------------------
(* Bounds of the model *)

MaxRounds == 3

\* the rounds of a debate that follows other debates on the same DebateSystem
MaxSessionRounds == 2

\* the length up to which an agent's dialogue history is counted
MaxHistory == 8

-----------------------------------------------------------------------------
(* Texts *)

\* Python's None
None == <<"<None>">>

\* `if x:` for an Optional[str] / Optional[list]
Truthy(x) == x # None /\ x # <<>>

Min(a, b) == IF a <= b THEN a ELSE b

\* s[:n]
Slice(s, n) == SubSeq(s, 1, Min(n, Len(s)))

Topics == {"t1"}

\* What the oracle may answer when asked for an utterance: plain text, or text
\* carrying a JSON self-check snippet, which _clean_response removes.
Replies == { <<"p">>, <<"q", "{consistent}">> }

\* The oracle raised instead of answering
Raised == <<"<raised>">>

Evals == { <<"e">> }
Guidances == { <<"g">> }
Summaries == { <<"s">> }

\* The pieces _clean_response cuts out of an utterance
CleanedOut == {"{consistent}", "json", "[self-check]", "[judge-feedback]",
               "[sharp-comment]", "[logic-flaw]", "[round-winner]",
               "[consensus-progress]", "[next-round]", "!hint", "meta-remark"}

IsKept(t) == t \notin CleanedOut

_clean_response(text) == SelectSeq(text, IsKept)

-----------------------------------------------------------------------------
(* JudgeAgent.check_consensus: the parsing of the oracle's reply.           *)
(* A reply is a sequence of characters; "SCORE" stands for the two          *)
(* characters of the score label and "NL" for a newline.  A score is the    *)
(* exact fraction n/d.                                                      *)

Digits == {"0", "1", "2", "3", "4", "5", "6", "7", "8", "9"}

DigitVal(c) ==
    CASE c = "0" -> 0 [] c = "1" -> 1 [] c = "2" -> 2 [] c = "3" -> 3
      [] c = "4" -> 4 [] c = "5" -> 5 [] c = "6" -> 6 [] c = "7" -> 7
      [] c = "8" -> 8 [] c = "9" -> 9

\* the first position of token t in s, 0 when absent
IndexOf(s, t) ==
    IF \E i \in 1..Len(s) : s[i] = t
    THEN CHOOSE i \in 1..Len(s) : s[i] = t /\ \A j \in 1..(i - 1) : s[j] # t
    ELSE 0

\* s.split(t)[0]
SplitHead(s, t) == IF IndexOf(s, t) = 0 THEN s ELSE SubSeq(s, 1, IndexOf(s, t) - 1)

\* s.split(t)[1], for s containing t
SplitSecond(s, t) == SplitHead(SubSeq(s, IndexOf(s, t) + 1, Len(s)), t)

\* characters for which str.isdigit() holds and which float() and int() reject:
\* "sup2" stands for the superscript two
SuperscriptDigits == {"sup2"}

\* line 230: c.isdigit() or c == '.'
IsDigitOrDot(c) == c \in Digits \/ c \in SuperscriptDigits \/ c = "."

IsDigit(c) == c \in Digits

RECURSIVE IntOf(_)
IntOf(ds) == IF ds = <<>> THEN 0
             ELSE 10 * IntOf(SubSeq(ds, 1, Len(ds) - 1)) + DigitVal(ds[Len(ds)])

RECURSIVE Pow10(_)
Pow10(k) == IF k = 0 THEN 1 ELSE 10 * Pow10(k - 1)

RECURSIVE Gcd(_, _)
Gcd(a, b) == IF b = 0 THEN a ELSE Gcd(b, a % b)

Frac(n, d) == [n |-> n \div Gcd(n, d), d |-> d \div Gcd(n, d)]

FracGE(x, y) == x.n * y.d >= y.n * x.d

\* faulty variant: float() is taken to accept every filtered text (no except)
FloatParsesAlways(ds) == TRUE

\* float(text) succeeds on a text of characters that passed the filter of
\* line 230 exactly when it holds decimal digits and dots only, at least one
\* digit and at most one dot
FloatParses(ds) ==
    /\ \A i \in DOMAIN ds : ds[i] \notin SuperscriptDigits
    /\ Len(SelectSeq(ds, IsDigit)) >= 1
    /\ Len(ds) - Len(SelectSeq(ds, IsDigit)) <= 1

\* float(text), as the fraction n/d
FloatOf(ds) ==
    LET dot  == IndexOf(ds, ".")
        frac == IF dot = 0 THEN 0 ELSE Len(ds) - dot
    IN  [n |-> IntOf(SelectSeq(ds, IsDigit)), d |-> Pow10(frac)]

DefaultScore == Frac(1, 2)

\* the score check_consensus computes from the oracle's reply
ConsensusScore(reply) ==
    LET score_text == IF IndexOf(reply, "SCORE") # 0
                      THEN SplitHead(SplitSecond(reply, "SCORE"), "NL")
                      ELSE <<"5", "0">>
        ds == SelectSeq(score_text, IsDigitOrDot)
        f  == FloatOf(ds)
    IN  IF ~FloatParses(ds) THEN DefaultScore
        ELSE IF f.n >= 100 * f.d THEN Frac(1, 1)
        ELSE Frac(f.n, 100 * f.d)

CONSENSUS_THRESHOLD == Frac(8, 10)

\* The consensus replies the session driver is run with
DriverConsensusReplies == { <<"SCORE", ":", "9", "0">>, <<"SCORE", ":", "3", "0">> }

-----------------------------------------------------------------------------
(* DebateAgent: prompts *)

MaxRetries == 2
HistorySummaryChars == 300
VerifyHistoryChars == 150

Agents == {"A", "B"}

\* self.stance of DebateAgentA / DebateAgentB
Stance(a) == IF a = "A" THEN "pro" ELSE "con"

\* faulty variant: the key does not depend on the stance
my_key_fixed(stance) == "agent_a"

my_key(stance) == IF stance = "pro" THEN "agent_a" ELSE "agent_b"

opp_key(stance) == IF stance = "pro" THEN "agent_b" ELSE "agent_a"

NoResponse == [text |-> None, call |-> 0]

\* The entries _build_history_summary writes, one per record
_build_history_summary(stance, dh) ==
    [i \in 1..Len(dh) |->
        [round |-> dh[i].round,
         my    |-> Slice(dh[i][my_key(stance)], HistorySummaryChars),
         opp   |-> Slice(dh[i][opp_key(stance)], HistorySummaryChars)]]

\* my_previous / opp_previous of _verify_and_fix_consistency, one entry per record
VerifyHistory(stance, dh) ==
    [i \in 1..Len(dh) |->
        [round |-> i,
         my    |-> Slice(dh[i][my_key(stance)], VerifyHistoryChars),
         opp   |-> Slice(dh[i][opp_key(stance)], VerifyHistoryChars)]]

Prompt(agent, kind, tp, hist, opp_view, feedback, utter) ==
    [agent |-> agent, kind |-> kind, topic |-> tp, hist |-> hist,
     opp_view |-> opp_view, feedback |-> feedback, utter |-> utter]

NoPrompt == Prompt("-", "none", "-", <<>>, None, None, NoResponse)

\* The prompt debate() builds: the opening prompt without an opponent view,
\* else the rebuttal prompt (its first-speech form when there is no history)
DebatePrompt(a, tp, opp_view, feedback, dh) ==
    IF Truthy(opp_view)
    THEN Prompt(a, IF dh # <<>> THEN "rebuttal" ELSE "first_rebuttal", tp,
                IF dh # <<>> THEN _build_history_summary(Stance(a), dh) ELSE <<>>,
                opp_view,
                IF Truthy(feedback) THEN feedback ELSE None,
                NoResponse)
    ELSE Prompt(a, "opening", tp, <<>>, None, None, NoResponse)

\* verify_prompt of _verify_and_fix_consistency
VerifyPrompt(a, tp, resp, dh) ==
    Prompt(a, "verify", tp, VerifyHistory(Stance(a), dh), None, None, resp)

\* A verification reply is a sequence of tokens: "{" and "}", "w" for text
\* that is no JSON, "[" and "]" around a list of objects, and one token per
\* member of a JSON object ("c=..." for "consistent": ..., "t=..." for
\* "attribution_correct": ..., "p=[]" for "problems": [], "d=1" for any other
\* member).
JsonMembers == {"c=true", "c=false", "c=null", "t=true", "t=false", "p=[]", "d=1"}

KeyOf(tok) ==
    CASE tok \in {"c=true", "c=false", "c=null"} -> "consistent"
      [] tok \in {"t=true", "t=false"} -> "attribution_correct"
      [] OTHER -> "other"

ValueOf(tok) ==
    CASE tok \in {"c=true", "t=true"} -> "true"
      [] tok \in {"c=false", "t=false"} -> "false"
      [] tok = "c=null" -> "null"
      [] OTHER -> "other"

\* The verification replies the oracle is run with: no brace, braces around
\* text that is no JSON, the object the prompt asks for with its flags true,
\* false or null, objects without the flags, an object after a brace pair
\* that is no JSON, an object whose problems are objects themselves, and an
\* object inside other text
VerifyTexts ==
    { <<"w">>,
      <<"{", "w", "}">>,
      <<"{", "c=true", "t=true", "p=[]", "}">>,
      <<"{", "c=false", "t=true", "p=[]", "}">>,
      <<"{", "c=true", "t=false", "p=[]", "}">>,
      <<"{", "p=[]", "}">>,
      <<"{", "c=null", "t=true", "}">>,
      <<"{", "w", "}", "{", "c=false", "t=true", "}">>,
      <<"{", "c=false", "t=true", "[", "{", "d=1", "}", "]", "}">>,
      <<"w", "{", "c=false", "t=false", "}", "w">> }

IsBrace(c) == c \in {"{", "}"}

\* the positions where r'\{[^{}]*\}' matches
MatchStarts(s) ==
    {i \in DOMAIN s :
        /\ s[i] = "{"
        /\ \E j \in DOMAIN s :
              j > i /\ s[j] = "}" /\ \A k \in (i + 1)..(j - 1) : ~IsBrace(s[k])}

\* faulty variant: the last match is taken
json_matchLast(s) ==
    IF MatchStarts(s) = {} THEN <<>>
    ELSE LET i == CHOOSE x \in MatchStarts(s) : \A y \in MatchStarts(s) : y <= x
             j == CHOOSE x \in DOMAIN s :
                     /\ x > i /\ s[x] = "}"
                     /\ \A y \in (i + 1)..(x - 1) : s[y] # "}"
         IN  SubSeq(s, i, j)

\* re.search(r'\{[^{}]*\}', verification, re.DOTALL): the leftmost match,
\* <<>> when there is none (line 253)
json_match(s) ==
    IF MatchStarts(s) = {} THEN <<>>
    ELSE LET i == CHOOSE x \in MatchStarts(s) : \A y \in MatchStarts(s) : x <= y
             j == CHOOSE x \in DOMAIN s :
                     /\ x > i /\ s[x] = "}"
                     /\ \A y \in (i + 1)..(x - 1) : s[y] # "}"
         IN  SubSeq(s, i, j)

\* the value json.loads gives a key of the object: that of its last member
\* with the key, "absent" without one
MemberValue(members, key) ==
    LET at == {i \in DOMAIN members : KeyOf(members[i]) = key}
    IN  IF at = {} THEN "absent"
        ELSE ValueOf(members[CHOOSE i \in at : \A j \in at : j <= i])

VR(obj, c, t, text) ==
    [obj |-> obj, consistent |-> c, attribution_correct |-> t, text |-> text]

\* lines 253-255: what the search and json.loads make of a verification reply:
\* no brace-delimited snippet, a snippet that is not JSON (json.loads raises),
\* or the object with its two flags
Verification(text) ==
    LET m == json_match(text)
        members == SubSeq(m, 2, Len(m) - 1)
    IN  IF m = <<>> THEN VR("none", "absent", "absent", text)
        ELSE IF \E i \in DOMAIN members : members[i] \notin JsonMembers
             THEN VR("invalid", "absent", "absent", text)
             ELSE VR("json", MemberValue(members, "consistent"),
                     MemberValue(members, "attribution_correct"), text)

VerifyReplies == { Verification(text) : text \in VerifyTexts }

\* result.get(key, True)
GetOrTrue(v, key) == IF v[key] = "absent" THEN "true" ELSE v[key]

\* bool(x) of a JSON value
JsonTruthy(x) == x \notin {"false", "null"}

\* faulty variant: one true flag is enough
PassedIfEither(v) == JsonTruthy(GetOrTrue(v, "consistent"))
                     \/ JsonTruthy(GetOrTrue(v, "attribution_correct"))

\* the verification passed: line 256
Passed(v) == JsonTruthy(GetOrTrue(v, "consistent"))
             /\ JsonTruthy(GetOrTrue(v, "attribution_correct"))

-----------------------------------------------------------------------------
(* DebateTracker (debate_tracker.py).  A speech is a sequence of lines: a   *)
(* section header, a numbered item, or plain text.                          *)

MaxSpeeches == 3
ShownArguments == 5
ShownChars == 80
IndexArguments == 3
IndexChars == 50

Hdr(h) == [k |-> "header", t |-> h]
Item(t) == [k |-> "item", t |-> t]
Txt(t) == [k |-> "text", t |-> t]

\* Speeches add_speech is called with: a core section; a position, a new
\* section with an item running over two lines and an item of another
\* section; an empty core section directly followed by a new section; no
\* section at all
Speeches ==
    { <<Hdr("CORE"), Item("a"), Item("b")>>,
      <<Hdr("POS"), Txt("p"), Hdr("NEW"), Item("c"), Txt("d"), Hdr("OTHER"), Item("a")>>,
      <<Hdr("CORE"), Hdr("NEW"), Item("a")>>,
      <<Txt("d")>> }

SpeechRounds == {1, 2}

TrackerTopics == {"t1", "t2"}

TrackerAgents == {"agent_a", "agent_b"}

\* the longest prefix of lines holding no line of kind k
RECURSIVE UpToKind(_, _)
UpToKind(ls, k) ==
    IF ls = <<>> \/ ls[1].k = k THEN <<>> ELSE <<ls[1]>> \o UpToKind(Tail(ls), k)

TextsOf(ls) == [i \in 1..Len(ls) |-> ls[i].t]

\* the first position of a header h in the speech, 0 when absent
HeaderAt(speech, h) ==
    IF \E i \in 1..Len(speech) : speech[i] = Hdr(h)
    THEN CHOOSE i \in 1..Len(speech) :
            speech[i] = Hdr(h) /\ \A j \in 1..(i - 1) : speech[j] # Hdr(h)
    ELSE 0

\* group 1 of the section pattern (line 36): at least one character after the
\* header, then lazily up to the next line that opens a section
SectionContent(speech, h) ==
    LET i == HeaderAt(speech, h)
    IN  IF i = 0 \/ i = Len(speech) THEN <<>>
        ELSE <<speech[i + 1]>> \o UpToKind(SubSeq(speech, i + 2, Len(speech)), "header")

\* re.findall of the numbered-item pattern (line 38): each item runs up to the
\* next numbered line
RECURSIVE NumberedItems(_)
NumberedItems(ls) ==
    IF ls = <<>> THEN <<>>
    ELSE IF ls[1].k = "item"
         THEN LET more == UpToKind(Tail(ls), "item")
              IN  <<TextsOf(<<ls[1]>> \o more)>>
                  \o NumberedItems(SubSeq(ls, Len(more) + 2, Len(ls)))
         ELSE NumberedItems(Tail(ls))

\* group 1 of the position pattern (line 30), built like the section pattern
PositionOf(speech) == TextsOf(SectionContent(speech, "POS"))

parse_speech(speech, rn) ==
    [round |-> rn,
     position |-> PositionOf(speech),
     arguments |-> NumberedItems(SectionContent(speech, "CORE"))
                   \o NumberedItems(SectionContent(speech, "NEW"))]

\* [a for r in rounds for a in r["arguments"]]
RECURSIVE AllArguments(_)
AllArguments(rounds) ==
    IF rounds = <<>> THEN <<>>
    ELSE rounds[1].arguments \o AllArguments(Tail(rounds))

\* faulty variant: the opponent is always agent_b
opp_agent_fixed(agent) == "agent_b"

\* line 50
opp_agent(agent) == IF agent = "agent_a" THEN "agent_b" ELSE "agent_a"

NoShown == [agent |-> "-", my_name |-> "-", opp_name |-> "-", my |-> <<>>, opp |-> <<>>,
            index_my |-> <<>>, index_opp |-> <<>>]

\* the cut of each of the first n arguments to its first c characters
Listed(arguments, n, c) ==
    [i \in 1..Min(n, Len(arguments)) |-> Slice(arguments[i], c)]

\* DebateTracker.__init__
InitTracker ==
    /\ \E tp \in TrackerTopics :
          /\ data = [topic |-> tp,
                     agent_a |-> [role |-> "pro", stance |-> "support", rounds |-> <<>>],
                     agent_b |-> [role |-> "con", stance |-> "oppose", rounds |-> <<>>]]
          /\ added = [topic |-> tp, agent_a |-> <<>>, agent_b |-> <<>>]
    /\ shown = NoShown

\* DebateTracker.add_speech
add_speech(agent, speech, rn) ==
    /\ Len(added.agent_a) + Len(added.agent_b) < MaxSpeeches
    /\ data' = [data EXCEPT ![agent].rounds = Append(@, parse_speech(speech, rn))]
    /\ added' = [added EXCEPT ![agent] = Append(@, [speech |-> speech, round |-> rn])]
    /\ shown' = NoShown
    /\ UNCHANGED notTracker

\* DebateTracker.get_structured_history_for_agent
get_structured_history_for_agent(agent) ==
    LET my_data == data[agent]
        opp_data == data[opp_agent(agent)]
        my_arguments == AllArguments(my_data.rounds)
        opp_arguments == AllArguments(opp_data.rounds)
    IN  /\ shown' = [agent |-> agent,
                     my_name |-> my_data.role, opp_name |-> opp_data.role,
                     my |-> Listed(my_arguments, ShownArguments, ShownChars),
                     opp |-> Listed(opp_arguments, ShownArguments, ShownChars),
                     index_my |-> Listed(my_arguments, IndexArguments, IndexChars),
                     index_opp |-> Listed(opp_arguments, IndexArguments, IndexChars)]
        /\ UNCHANGED <<data, added>>
        /\ UNCHANGED notTracker

NextTracker ==
    \/ \E agent \in TrackerAgents, speech \in Speeches, rn \in SpeechRounds :
          add_speech(agent, speech, rn)
    \/ \E agent \in TrackerAgents : get_structured_history_for_agent(agent)

-----------------------------------------------------------------------------
(* QwenModel (model_loader.py): the singleton and its loading *)

MaxConstructions == 4

Hardware == {"cuda", "mps", "cpu"}

\* Where _load_model may fail: nowhere, in get_device, in the tokenizer's
\* from_pretrained, in the model's from_pretrained, or in model.to(device)
LoadOutcomes == {"ok", "device", "tokenizer", "model", "move"}

\* faulty variant: __init__ loads whenever it runs
NeedsLoadAlways == TRUE

\* line 91: `if QwenModel._model is None`
NeedsLoad == q_model = "None"

\* the instance __new__ returns (lines 81-83); instances are numbered from 1
NewInstance == IF q_instance = 0 THEN 1 ELSE q_instance

\* one construction, as recorded: the instance __new__ gave, whether
\* _load_model ran, which from_pretrained calls succeeded, and whether
\* QwenModel() returned or raised ModelLoadError
Construction(inst, loads, tok, model, returned) ==
    [instance |-> inst, loads |-> loads, tokenizer_loaded |-> tok,
     model_loaded |-> model, returned |-> returned]

\* QwenModel(): __new__, __init__ and, when the guard asks for it, _load_model
\* running up to the point f where it fails
Construct(f) ==
    /\ Len(constructions) < MaxConstructions
    /\ q_instance' = NewInstance
    /\ IF NeedsLoad
       THEN /\ f = "move" => hw # "cuda"
            /\ q_device' = IF f = "device" THEN q_device ELSE hw
            /\ q_tokenizer' = IF f \in {"device", "tokenizer"} THEN q_tokenizer ELSE "loaded"
            /\ q_model' = CASE f \in {"device", "tokenizer", "model"} -> q_model
                            [] f = "move" -> "loaded"
                            [] f = "ok" -> "ready"
            /\ constructions' = Append(constructions,
                    Construction(NewInstance, TRUE, f \notin {"device", "tokenizer"},
                                 f \in {"move", "ok"}, f = "ok"))
       ELSE /\ f = "ok"
            /\ UNCHANGED <<q_device, q_tokenizer, q_model>>
            /\ constructions' = Append(constructions,
                    Construction(NewInstance, FALSE, FALSE, FALSE, TRUE))
    /\ UNCHANGED hw
    /\ UNCHANGED notLoader

\* no QwenModel has been constructed
InitLoader ==
    /\ q_instance = 0 /\ q_model = "None" /\ q_tokenizer = "None" /\ q_device = "None"
    /\ hw \in Hardware
    /\ constructions = <<>>

\* DebateSystem.__init__ has constructed its three agents (lines 106-108)
AgentsConstructed ==
    /\ q_instance = 1 /\ q_model = "ready" /\ q_tokenizer = "loaded" /\ q_device = "cpu"
    /\ hw = "cpu"
    /\ constructions = <<Construction(1, TRUE, TRUE, TRUE, TRUE),
                         Construction(1, FALSE, FALSE, FALSE, TRUE),
                         Construction(1, FALSE, FALSE, FALSE, TRUE)>>

NextLoader == \E f \in LoadOutcomes : Construct(f)

-----------------------------------------------------------------------------
(* JudgeAgent.check_consensus as a function of the oracle's reply *)

\* The characters a consensus reply is made of: the score label, a newline,
\* the character of "yes", a dot, decimal digits, a superscript digit and
\* another character
ReplyChars == {"SCORE", "NL", "YES", ".", "0", "1", "5", "sup2", "/"}

MaxReplyLen == 4

\* the texts of at most n characters
RECURSIVE TextsUpTo(_)
TextsUpTo(n) ==
    IF n = 0 THEN { <<>> }
    ELSE LET shorter == TextsUpTo(n - 1)
         IN  shorter \cup { Append(t, c) : t \in shorter, c \in ReplyChars }

ConsensusReplies == TextsUpTo(MaxReplyLen) \cup DriverConsensusReplies

NoReturn == [called |-> FALSE]

\* check_consensus has not been called
NoJudgeCall ==
    /\ consensus_response = None
    /\ consensus_return = NoReturn

\* check_consensus is at line 224: the oracle has replied
InitJudgeCall ==
    /\ consensus_response \in ConsensusReplies
    /\ consensus_return = NoReturn

\* line 227: "yes" in response[:50]
has_consensus(reply) == \E i \in DOMAIN reply : i <= 50 /\ reply[i] = "YES"

\* check_consensus from line 226 to its return
check_consensus ==
    /\ ~consensus_return.called
    /\ consensus_return' = [called        |-> TRUE,
                            has_consensus |-> has_consensus(consensus_response),
                            score         |-> ConsensusScore(consensus_response),
                            response      |-> consensus_response]
    /\ UNCHANGED consensus_response
    /\ UNCHANGED notJudge

NextJudge == check_consensus

-----------------------------------------------------------------------------
(* utils.export_debate_result *)

\* A path is a sequence of characters; a format is a string, "<None>" for None.
MaxExports == 2

NoFormat == "<None>"

Formats == {"json", "markdown", "text"}

\* the values of the parameter format
FormatArgs == {NoFormat, "json", "markdown", "text", "md", "JSON", ""}

\* the values of the parameter output_path: None, the empty string, and paths
\* with and without the extensions that are looked for
PathArgs == { None, <<>>,
              <<"a", ".", "m", "d">>, <<"a", ".", "t", "x", "t">>,
              <<"a", ".", "j", "s", "o", "n">>, <<"a", ".", "m", "d", ".", "t", "x", "t">>,
              <<"a", ".", "M", "D">>, <<"a", "m", "d">>, <<".", "m", "d">>,
              <<"a", ".", "m", "d", " ">> }

\* datetime.now() of line 52
Timestamps == {"ts1", "ts2"}

\* s.endswith(suffix)
EndsWith(s, suffix) ==
    /\ Len(s) >= Len(suffix)
    /\ SubSeq(s, Len(s) - Len(suffix) + 1, Len(s)) = suffix

\* faulty variant: the extension of the path is looked at first
ChosenFormatExtensionWins(output_path, format) ==
    IF Truthy(output_path) /\ EndsWith(output_path, <<".", "m", "d">>) THEN "markdown"
    ELSE IF Truthy(output_path) /\ EndsWith(output_path, <<".", "t", "x", "t">>) THEN "text"
    ELSE IF format = NoFormat THEN "json"
    ELSE format

\* lines 40-48: the value of format after the automatic choice
ChosenFormat(output_path, format) ==
    IF format = NoFormat /\ Truthy(output_path)
    THEN IF EndsWith(output_path, <<".", "m", "d">>) THEN "markdown"
         ELSE IF EndsWith(output_path, <<".", "t", "x", "t">>) THEN "text"
         ELSE "json"
    ELSE IF format = NoFormat THEN "json"
    ELSE format

\* lines 51-55: the file name made up when no path is given
GeneratedPath(format, ts) ==
    <<"debate_", "topic", "_", ts, ".">>
        \o (IF format = "json" THEN <<"j", "s", "o", "n">> ELSE <<"m", "d">>)

\* open(path, "w") fails on the empty path, which is the current directory
OpenFails(path) == path = <<>>

NoCall == [n |-> 0, outcome |-> "none"]

\* export_debate_result has not been called
NoExport ==
    /\ files = {}
    /\ export_call = NoCall

\* export_debate_result(result, output_path, format): lines 40-73
export_debate_result(output_path, format, ts) ==
    /\ export_call.n < MaxExports
    /\ LET chosen == ChosenFormat(output_path, format)
           path   == IF output_path = None THEN GeneratedPath(chosen, ts)
                     ELSE output_path
           outcome == IF chosen \notin Formats THEN "ValueError"
                      ELSE IF OpenFails(path) THEN "IsADirectoryError"
                      ELSE "returned"
       IN  /\ files' = IF outcome = "returned"
                       THEN {f \in files : f.path # path}
                               \cup {[path |-> path, serialisation |-> chosen]}
                       ELSE files
           /\ export_call' = [n |-> export_call.n + 1,
                              output_path |-> output_path, format |-> format,
                              chosen |-> chosen, outcome |-> outcome,
                              returned |-> IF outcome = "returned" THEN path ELSE None,
                              before |-> files]
    /\ UNCHANGED notExport

NextExport ==
    \E output_path \in PathArgs, format \in FormatArgs, ts \in Timestamps :
        export_debate_result(output_path, format, ts)

-----------------------------------------------------------------------------
(* tools: SearchTool (tools/search_tool.py), RAGTool (tools/rag_tool.py) *)

MaxDocuments == 3
MaxTopK == 3

Docs == {"d1", "d2"}

\* the non-empty lists given to add_documents
DocLists == { <<d>> : d \in Docs } \cup { <<d, e>> : d \in Docs, e \in Docs }

Queries == {"q1"}

\* the values of top_k; config.RAG_TOP_K = 3 is the default
TopKs == 1..MaxTopK

\* what the web search and the fetching of the pages may yield (failures of
\* either are caught inside SearchTool.search)
WebResults == { <<>>, <<"r1">>, <<"r1", "r2">> }

NoToolCall == [op |-> "none"]

\* the tools package has not been imported
NoTools ==
    /\ GOOGLE_SEARCH_AVAILABLE = FALSE
    /\ RAG_AVAILABLE = FALSE
    /\ documents = <<>>
    /\ embeddings = None
    /\ index = None
    /\ tool_return = NoToolCall
    /\ handed = <<>>

\* The modules have been imported (the optional imports of search_tool.py
\* lines 35-39 and rag_tool.py lines 47-52 succeeded or raised ImportError)
\* and a RAGTool and a SearchTool constructed
InitTools ==
    /\ GOOGLE_SEARCH_AVAILABLE \in BOOLEAN
    /\ RAG_AVAILABLE \in BOOLEAN
    /\ documents = <<>>
    /\ embeddings = None
    /\ index = None
    /\ tool_return = NoToolCall
    /\ handed = <<>>

\* self.model.encode(documents): one row per document
encode(docs) == [i \in DOMAIN docs |-> "emb_" \o docs[i]]

\* the number of rows of an array that may be None
Rows(e) == IF e = None THEN 0 ELSE Len(e)

\* RAGTool.format_context / SearchTool.format_results
format_context(results) ==
    IF results = <<>> THEN <<>>
    ELSE <<"[knowledge]">> \o [i \in DOMAIN results |-> results[i].document]

format_results(results) ==
    IF results = <<>> THEN <<>> ELSE <<"[search]">> \o results

\* faulty variant: the guard on RAG_AVAILABLE is missing; without the
\* embedding model encode() then raises after the documents were stored
add_documentsUnguarded(docs) ==
    /\ Len(handed) + Len(docs) <= MaxDocuments
    /\ handed' = handed \o docs
    /\ documents' = documents \o docs
    /\ IF RAG_AVAILABLE
       THEN /\ embeddings' = IF embeddings = None THEN encode(docs)
                                                  ELSE embeddings \o encode(docs)
            /\ index' = embeddings'
            /\ tool_return' = [op |-> "add_documents", raised |-> FALSE]
       ELSE /\ UNCHANGED <<embeddings, index>>
            /\ tool_return' = [op |-> "add_documents", raised |-> TRUE]
    /\ UNCHANGED <<GOOGLE_SEARCH_AVAILABLE, RAG_AVAILABLE>>
    /\ UNCHANGED notTools

\* faulty variant: the new rows replace the old ones instead of being stacked
add_documentsReplacesRows(docs) ==
    /\ Len(handed) + Len(docs) <= MaxDocuments
    /\ handed' = handed \o docs
    /\ IF ~RAG_AVAILABLE
       THEN UNCHANGED <<documents, embeddings, index>>
       ELSE /\ documents' = documents \o docs
            /\ embeddings' = encode(docs)
            /\ index' = embeddings'
    /\ tool_return' = [op |-> "add_documents", raised |-> FALSE]
    /\ UNCHANGED <<GOOGLE_SEARCH_AVAILABLE, RAG_AVAILABLE>>
    /\ UNCHANGED notTools

\* RAGTool.add_documents with _build_index: lines 114-142
add_documents(docs) ==
    /\ Len(handed) + Len(docs) <= MaxDocuments
    /\ handed' = handed \o docs
    /\ IF ~RAG_AVAILABLE
       THEN UNCHANGED <<documents, embeddings, index>>
       ELSE /\ documents' = documents \o docs
            /\ embeddings' = IF embeddings = None THEN encode(docs)
                                                  ELSE embeddings \o encode(docs)
            /\ index' = embeddings'
    /\ tool_return' = [op |-> "add_documents", raised |-> FALSE]
    /\ UNCHANGED <<GOOGLE_SEARCH_AVAILABLE, RAG_AVAILABLE>>
    /\ UNCHANGED notTools

\* What index.search(query_vec, k) may return for an index of ntotal rows: k
\* labels, the nearest rows first, each row at most once, and -1 in the
\* places for which no row is left
Nearest(ntotal, k) ==
    { ls \in [1..k -> -1..(ntotal - 1)] :
        /\ \A i \in 1..k : (ls[i] = -1) <=> (i > ntotal)
        /\ \A i, j \in 1..k : (i # j /\ ls[i] # -1) => ls[i] # ls[j] }

\* self.documents[i], for i as Python takes it
DocAt(i) == IF i < 0 THEN documents[Len(documents) + 1 + i] ELSE documents[i + 1]

\* the list comprehension of lines 176-179
Entries(labels) ==
    LET kept(l) == l < Len(documents)
        ks == SelectSeq(labels, kept)
    IN  [i \in DOMAIN ks |-> [document |-> DocAt(ks[i]), index |-> ks[i]]]

\* RAGTool.retrieve, lines 163-179, and the context BaseAgent.retrieve
\* (lines 123-126) makes of its result
retrieve(query, top_k) ==
    /\ IF ~RAG_AVAILABLE \/ index = None
       THEN tool_return' = [op |-> "retrieve", query |-> query, top_k |-> top_k,
                            value |-> <<>>, context |-> format_context(<<>>)]
       ELSE \E labels \in Nearest(Rows(index), Min(top_k, Len(documents))) :
               tool_return' = [op |-> "retrieve", query |-> query, top_k |-> top_k,
                               value |-> Entries(labels),
                               context |-> format_context(Entries(labels))]
    /\ UNCHANGED <<GOOGLE_SEARCH_AVAILABLE, RAG_AVAILABLE, documents, embeddings,
                   index, handed>>
    /\ UNCHANGED notTools

\* RAGTool.clear: lines 209-211
clear ==
    /\ documents' = <<>>
    /\ embeddings' = None
    /\ index' = None
    /\ handed' = <<>>
    /\ tool_return' = [op |-> "clear"]
    /\ UNCHANGED <<GOOGLE_SEARCH_AVAILABLE, RAG_AVAILABLE>>
    /\ UNCHANGED notTools

\* SearchTool.search, lines 95-120, and the context BaseAgent.search (lines
\* 104-107) makes of its result
search(query) ==
    /\ \E found \in (IF GOOGLE_SEARCH_AVAILABLE THEN WebResults ELSE { <<>> }) :
          tool_return' = [op |-> "search", query |-> query, value |-> found,
                          context |-> format_results(found)]
    /\ UNCHANGED <<GOOGLE_SEARCH_AVAILABLE, RAG_AVAILABLE, documents, embeddings,
                   index, handed>>
    /\ UNCHANGED notTools

NextTools ==
    \/ \E docs \in DocLists : add_documents(docs)
    \/ \E query \in Queries, top_k \in TopKs : retrieve(query, top_k)
    \/ clear
    \/ \E query \in Queries : search(query)

-----------------------------------------------------------------------------
(* DebateSystem.interactive_mode *)

\* What is entered at a prompt is a sequence of characters; "tui", "chu" stand
\* for the two characters of the Chinese quit word.
MaxPasses == 3

\* config.py line 85, with DEBATE_MAX_ROUNDS not set in the environment
MAX_DEBATE_ROUNDS == 5

\* what may be entered at the topic prompt
TopicInputs == { <<>>, <<" ">>, <<"t">>, <<" ", "t", " ">>, <<"q", "t">>,
                 <<"q">>, <<"Q">>, <<" ", "q", " ">>,
                 <<"q", "u", "i", "t">>, <<"Q", "U", "I", "T">>,
                 <<"E", "x", "i", "t">>, <<"tui", "chu">> }

\* what may be entered at the rounds prompt
RoundsInputs == { <<>>, <<"2">>, <<" ", "1">>, <<"0">>, <<"x">>, <<"2", "x">>,
                  <<"-", "1">>, <<"sup2">>, <<"1", "sup2">> }

RECURSIVE lstrip(_)
lstrip(text) == IF text # <<>> /\ text[1] = " " THEN lstrip(Tail(text)) ELSE text

RECURSIVE rstrip(_)
rstrip(text) == IF text # <<>> /\ text[Len(text)] = " "
                THEN rstrip(SubSeq(text, 1, Len(text) - 1)) ELSE text

\* str.strip()
strip(text) == rstrip(lstrip(text))

LowerChar(c) ==
    CASE c = "Q" -> "q" [] c = "U" -> "u" [] c = "I" -> "i" [] c = "T" -> "t"
      [] c = "E" -> "e" [] c = "X" -> "x" [] OTHER -> c

\* str.lower()
lower(text) == [i \in DOMAIN text |-> LowerChar(text[i])]

\* line 261
QuitWords == { <<"q", "u", "i", "t">>, <<"e", "x", "i", "t">>, <<"tui", "chu">>, <<"q">> }

\* str.isdigit(): not empty, and every character a digit, decimal or not
isdigit(text) ==
    /\ text # <<>>
    /\ \A i \in DOMAIN text : text[i] \in Digits \/ text[i] \in SuperscriptDigits

\* int(text) raises ValueError unless text is made of decimal digits
IntRaises(text) == text = <<>> \/ \E i \in DOMAIN text : text[i] \notin Digits

NoPass == [n |-> 0]

\* interactive_mode has not been called
NoConsole ==
    /\ console_pc = "idle"
    /\ started = <<>>
    /\ console_last = NoPass

\* interactive_mode has been called and is at line 258
InitConsole ==
    /\ console_pc = "prompt"
    /\ started = <<>>
    /\ console_last = NoPass

Pass(topic_in, rounds_in, error) ==
    [n |-> console_last.n + 1, topic |-> topic_in, rounds |-> rounds_in,
     error |-> error, before |-> Len(started)]

\* One pass of the `while True` loop, lines 259-274.  run_debate (the driver
\* above) is taken as one step that returns or raises.
interactive_pass(topic_in) ==
    /\ console_pc = "prompt"
    /\ console_last.n < MaxPasses
    /\ LET tp == strip(topic_in)
       IN  IF lower(tp) \in QuitWords
           THEN /\ console_pc' = "ended"
                /\ console_last' = Pass(topic_in, None, "none")
                /\ UNCHANGED started
           ELSE IF tp = <<>>
           THEN /\ console_pc' = "prompt"
                /\ console_last' = Pass(topic_in, None, "none")
                /\ UNCHANGED started
           ELSE \E rounds_in \in RoundsInputs :
                  LET rounds == strip(rounds_in)
                  IN  IF isdigit(rounds) /\ IntRaises(rounds)
                      THEN /\ console_pc' = "raised"
                           /\ console_last' = Pass(topic_in, rounds_in, "ValueError")
                           /\ UNCHANGED started
                      ELSE /\ started' = Append(started,
                                  [topic |-> tp,
                                   max_rounds |-> IF isdigit(rounds) THEN IntOf(rounds)
                                                  ELSE MAX_DEBATE_ROUNDS])
                           /\ \/ /\ console_pc' = "prompt"
                                 /\ console_last' = Pass(topic_in, rounds_in, "none")
                              \/ /\ console_pc' = "raised"
                                 /\ console_last' = Pass(topic_in, rounds_in, "run_debate")
    /\ UNCHANGED notConsole

NextConsole == \E topic_in \in TopicInputs : interactive_pass(topic_in)

-----------------------------------------------------------------------------
(* DebateSystem.run_debate, with the agents' methods it calls.  One step   *)
(* per oracle call (BaseAgent.generate), plus the loop head and the        *)
(* recording of the round.                                                 *)

PcOf(a, step) == IF a = "A" THEN "A_" \o step ELSE "B_" \o step

Call(kind, utter, reply, ok) == [kind |-> kind, utter |-> utter, reply |-> reply, ok |-> ok]

Event(ev, val) == [ev |-> ev, round |-> round_num, val |-> val]

\* BaseAgent.generate returned: two messages are appended to self.history,
\* whose length hist_len counts up to MaxHistory
Generated(who) == hist_len' = [hist_len EXCEPT ![who] = Min(@ + 2, MaxHistory)]

\* faulty variant: the range runs one value too far
RangeHasNextOffByOne(rn, m) == rn + 1 <= m + 1

\* `for round_num in range(1, max_rounds + 1)`: there is a next value after rn
RangeHasNext(rn, m) == rn + 1 <= m

\* faulty variant: the early_stop flag is not consulted
ChecksConsensusAlways(es, rn) == rn > 1

\* line 213: `if early_stop and round_num > 1`
ChecksConsensus(es, rn) == es /\ rn > 1

\* faulty variant: the comparison is reversed
ConsensusReachedReversed(score) == FracGE(CONSENSUS_THRESHOLD, score)

\* line 215: `if score >= CONSENSUS_THRESHOLD`
ConsensusReached(score) == FracGE(score, CONSENSUS_THRESHOLD)

\* faulty variant: is_final_round is left at its default
IsFinalRoundDefault(rn, m) == FALSE

\* faulty variant: the round before max_rounds already counts as final
IsFinalRoundOneEarly(rn, m) == rn >= m - 1

\* line 192: is_final_round
IsFinalRound(rn, m) == rn = m


\* What the run_debate calls made so far have left in the DebateSystem: how
\* the latest one ended, and whether self.debate_history, the judge's
\* debate_records and some agent's dialogue history are non-empty
Leftover == [how      |-> pc,
             history  |-> debate_history # <<>>,
             records  |-> debate_records # <<>>,
             dialogue |-> \E a \in {"A", "B", "J"} : hist_len[a] > 0]

NothingEarlier == [how |-> "idle", history |-> FALSE, records |-> FALSE,
                   dialogue |-> FALSE]

\* faulty variant: the judge is reset with reset_history() instead of reset()
StartRunKeepsRecords(e, M) ==
    /\ pc \in {"idle", "done", "raised"}
    /\ \E tp \in Topics, m \in 0..M, es \in BOOLEAN :
          /\ topic' = tp
          /\ max_rounds' = m
          /\ early_stop' = es
    /\ debate_history' = <<>>
    /\ hist_len' = [a \in {"A", "B", "J"} |-> 0]
    /\ debate_records' = debate_records
    /\ view_a' = None /\ view_b' = None /\ last_eval' = None
    /\ round_num' = 0
    /\ history_for_agents' = <<>>
    /\ evaluation' = None /\ guidance' = None
    /\ result' = None
    /\ response' = NoResponse /\ verify_prompt' = NoPrompt /\ calls' = <<>>
    /\ lastPrompt' = NoPrompt
    /\ log' = <<>>
    /\ pc' = "loop"
    /\ earlier' = e
    /\ UNCHANGED notDriver

\* run_debate is called with max_rounds in 0..M: lines 148-162
StartRun(e, M) ==
    /\ pc \in {"idle", "done", "raised"}
    /\ \E tp \in Topics, m \in 0..M, es \in BOOLEAN :
          /\ topic' = tp
          /\ max_rounds' = m
          /\ early_stop' = es
    /\ debate_history' = <<>>
    /\ hist_len' = [a \in {"A", "B", "J"} |-> 0]
    /\ debate_records' = <<>>
    /\ view_a' = None /\ view_b' = None /\ last_eval' = None
    /\ round_num' = 0
    /\ history_for_agents' = <<>>
    /\ evaluation' = None /\ guidance' = None
    /\ result' = None
    /\ response' = NoResponse /\ verify_prompt' = NoPrompt /\ calls' = <<>>
    /\ lastPrompt' = NoPrompt
    /\ log' = <<>>
    /\ pc' = "loop"
    /\ earlier' = e
    /\ UNCHANGED notDriver

\* run_debate is called
StartDebate == StartRun(earlier, MaxRounds)

\* run_debate is called, and what the calls before it left behind is noted
StartLater == StartRun(Leftover, MaxSessionRounds)

\* line 164, and line 168 when a round begins
LoopHead ==
    /\ pc = "loop"
    /\ IF RangeHasNext(round_num, max_rounds)
       THEN /\ round_num' = round_num + 1
            /\ history_for_agents' = debate_history
            /\ pc' = "A_gen"
       ELSE /\ pc' = "summary"
            /\ UNCHANGED <<round_num, history_for_agents>>
    /\ UNCHANGED <<topic, max_rounds, early_stop, debate_history, view_a, view_b,
                   last_eval, evaluation, guidance, result, hist_len, debate_records,
                   response, verify_prompt, calls, lastPrompt, log>>
    /\ UNCHANGED <<earlier, notDriver>>

\* faulty variant: after A's utterance the judge is called, B does not speak
ReturnsSkipsB(a, text) ==
    /\ IF a = "A" THEN view_a' = text /\ UNCHANGED view_b
                  ELSE view_b' = text /\ UNCHANGED view_a
    /\ pc' = "J_eval"
    /\ log' = Append(log, Event(a, text))

\* debate() returns text to run_debate: lines 173 / 183
Returns(a, text) ==
    /\ IF a = "A" THEN view_a' = text /\ UNCHANGED view_b
                  ELSE view_b' = text /\ UNCHANGED view_a
    /\ pc' = IF a = "A" THEN "B_gen" ELSE "J_eval"
    /\ log' = Append(log, Event(a, text))

\* debate(): the prompt is built and the utterance generated (lines 72-95);
\* _verify_and_fix_consistency then builds verify_prompt (lines 231-248)
Gen(a) ==
    /\ pc = PcOf(a, "gen")
    /\ LET prompt == DebatePrompt(a, topic, IF a = "A" THEN view_b ELSE view_a,
                                  last_eval, history_for_agents)
       IN  \E r \in Replies :
              /\ response' = [text |-> r, call |-> 1]
              /\ verify_prompt' = VerifyPrompt(a, topic, [text |-> r, call |-> 1],
                                               history_for_agents)
              /\ calls' = <<Call("generate", NoResponse, r, TRUE)>>
              /\ lastPrompt' = prompt
    /\ Generated(a)
    /\ pc' = PcOf(a, "verify")
    /\ UNCHANGED <<topic, max_rounds, early_stop, round_num, debate_history,
                   history_for_agents, view_a, view_b, last_eval, evaluation,
                   guidance, result, debate_records, log>>
    /\ UNCHANGED <<earlier, notDriver>>

\* faulty variant: the verification call is not inside a try block
VerifyNoTry(a) ==
    /\ pc = PcOf(a, "verify")
    /\ lastPrompt' = verify_prompt
    /\ \/ /\ calls' = Append(calls, Call("verify", verify_prompt.utter, Raised, FALSE))
          /\ UNCHANGED <<hist_len, view_a, view_b>>
          /\ pc' = "raised"
          /\ log' = Append(log, Event("raised", <<pc>>))
       \/ \E v \in VerifyReplies :
             /\ calls' = Append(calls, Call("verify", verify_prompt.utter, v, TRUE))
             /\ Generated(a)
             /\ IF v.obj = "json" /\ ~Passed(v) /\ 0 < MaxRetries - 1
                THEN /\ pc' = PcOf(a, "fix")
                     /\ UNCHANGED <<view_a, view_b, log>>
                ELSE Returns(a, _clean_response(response.text))
    /\ UNCHANGED <<topic, max_rounds, early_stop, round_num, debate_history,
                   history_for_agents, last_eval, evaluation, guidance, result,
                   debate_records, response, verify_prompt>>
    /\ UNCHANGED <<earlier, notDriver>>

\* _verify_and_fix_consistency, first pass of the loop: the verification call
\* and what follows it up to the regeneration call (lines 250-260)
Verify(a) ==
    /\ pc = PcOf(a, "verify")
    /\ lastPrompt' = verify_prompt
    /\ \/ \* the oracle raises: line 263
          /\ calls' = Append(calls, Call("verify", verify_prompt.utter, Raised, FALSE))
          /\ UNCHANGED hist_len
          /\ Returns(a, _clean_response(response.text))
       \/ \E v \in VerifyReplies :
             /\ calls' = Append(calls, Call("verify", verify_prompt.utter, v, TRUE))
             /\ Generated(a)
             /\ IF v.obj = "json" /\ ~Passed(v) /\ 0 < MaxRetries - 1
                THEN /\ pc' = PcOf(a, "fix")
                     /\ UNCHANGED <<view_a, view_b, log>>
                ELSE Returns(a, _clean_response(response.text))
    /\ UNCHANGED <<topic, max_rounds, early_stop, round_num, debate_history,
                   history_for_agents, last_eval, evaluation, guidance, result,
                   debate_records, response, verify_prompt>>
    /\ UNCHANGED <<earlier, notDriver>>

\* _verify_and_fix_consistency: the regeneration call and the return that
\* follows it (lines 261-264)
Fix(a) ==
    /\ pc = PcOf(a, "fix")
    /\ lastPrompt' = Prompt(a, "fix", topic, <<>>, None, None, NoResponse)
    /\ \/ \* the oracle raises: line 263
          /\ calls' = Append(calls, Call("fix", NoResponse, Raised, FALSE))
          /\ UNCHANGED <<hist_len, response>>
          /\ Returns(a, _clean_response(response.text))
       \/ \E r \in Replies :
             /\ response' = [text |-> r, call |-> Len(calls) + 1]
             /\ calls' = Append(calls, Call("fix", NoResponse, r, TRUE))
             /\ Generated(a)
             /\ Returns(a, _clean_response(r))
    /\ UNCHANGED <<topic, max_rounds, early_stop, round_num, debate_history,
                   history_for_agents, last_eval, evaluation, guidance, result,
                   debate_records, verify_prompt>>
    /\ UNCHANGED <<earlier, notDriver>>

\* faulty variant: the two utterances are recorded under each other's key
JudgeRecordSwapped == [round |-> round_num, agent_a |-> view_b, agent_b |-> view_a]

\* lines 140-144 of evaluate_round: the record the judge keeps of the round
JudgeRecord == [round |-> round_num, agent_a |-> view_a, agent_b |-> view_b]

\* JudgeAgent.evaluate_round up to the evaluation call (lines 139-183)
JudgeEval ==
    /\ pc = "J_eval"
    /\ debate_records' = Append(debate_records, JudgeRecord)
    /\ lastPrompt' = Prompt("J", IF IsFinalRound(round_num, max_rounds)
                                 THEN "evaluate_final" ELSE "evaluate",
                            topic, <<JudgeRecord>>, None, None, NoResponse)
    /\ \E e \in Evals :
          /\ evaluation' = e
          /\ log' = Append(log, Event("J", e))
          /\ calls' = <<Call(IF IsFinalRound(round_num, max_rounds)
                             THEN "evaluate_final" ELSE "evaluate",
                             NoResponse, e, TRUE)>>
    /\ guidance' = <<>>
    /\ Generated("J")
    /\ pc' = IF IsFinalRound(round_num, max_rounds) THEN "record" ELSE "J_guid"
    /\ response' = NoResponse /\ verify_prompt' = NoPrompt
    /\ UNCHANGED <<topic, max_rounds, early_stop, round_num, debate_history,
                   history_for_agents, view_a, view_b, last_eval, result>>
    /\ UNCHANGED <<earlier, notDriver>>

\* JudgeAgent.evaluate_round: the guidance call (lines 187-189)
JudgeGuidance ==
    /\ pc = "J_guid"
    /\ lastPrompt' = Prompt("J", "guidance", topic, <<>>, None, None, NoResponse)
    /\ \E g \in Guidances :
          /\ guidance' = g
          /\ calls' = Append(calls, Call("guidance", NoResponse, g, TRUE))
    /\ Generated("J")
    /\ pc' = "record"
    /\ UNCHANGED <<topic, max_rounds, early_stop, round_num, debate_history,
                   history_for_agents, view_a, view_b, last_eval, evaluation,
                   result, debate_records, response, verify_prompt, log>>
    /\ UNCHANGED <<earlier, notDriver>>

\* faulty variant: the record takes the evaluation of the round before
RecordRoundStale ==
    /\ pc = "record"
    /\ last_eval' = evaluation
    /\ debate_history' = Append(debate_history,
            [round |-> round_num, agent_a |-> view_a, agent_b |-> view_b,
             evaluation |-> last_eval])
    /\ log' = Append(log, Event("record", <<>>))
    /\ pc' = IF ChecksConsensus(early_stop, round_num) THEN "consensus" ELSE "loop"
    /\ UNCHANGED <<topic, max_rounds, early_stop, round_num, history_for_agents,
                   view_a, view_b, evaluation, guidance, result, hist_len,
                   debate_records, response, verify_prompt, lastPrompt>>
    /\ calls' = <<>>
    /\ UNCHANGED <<earlier, notDriver>>

\* faulty variant: the agents were handed the list itself (no .copy() at line
\* 168), so the record appended to it shows in what they were handed
RecordRoundAliased ==
    /\ pc = "record"
    /\ last_eval' = evaluation
    /\ debate_history' = Append(debate_history,
            [round |-> round_num, agent_a |-> view_a, agent_b |-> view_b,
             evaluation |-> evaluation])
    /\ history_for_agents' = IF history_for_agents = <<>> THEN <<>>
                             ELSE debate_history'
    /\ log' = Append(log, Event("record", <<>>))
    /\ pc' = IF ChecksConsensus(early_stop, round_num) THEN "consensus" ELSE "loop"
    /\ UNCHANGED <<topic, max_rounds, early_stop, round_num,
                   view_a, view_b, evaluation, guidance, result, hist_len,
                   debate_records, response, verify_prompt, lastPrompt>>
    /\ calls' = <<>>
    /\ UNCHANGED <<earlier, notDriver>>

\* lines 199-207
RecordRound ==
    /\ pc = "record"
    /\ last_eval' = evaluation
    /\ debate_history' = Append(debate_history,
            [round |-> round_num, agent_a |-> view_a, agent_b |-> view_b,
             evaluation |-> evaluation])
    /\ log' = Append(log, Event("record", <<>>))
    /\ pc' = IF ChecksConsensus(early_stop, round_num) THEN "consensus" ELSE "loop"
    /\ UNCHANGED <<topic, max_rounds, early_stop, round_num, history_for_agents,
                   view_a, view_b, evaluation, guidance, result, hist_len,
                   debate_records, response, verify_prompt, lastPrompt>>
    /\ calls' = <<>>
    /\ UNCHANGED <<earlier, notDriver>>

\* lines 214-218, with JudgeAgent.check_consensus
CheckConsensus ==
    /\ pc = "consensus"
    /\ lastPrompt' = Prompt("J", "consensus", "-", <<[round |-> 0, agent_a |-> view_a,
                                                     agent_b |-> view_b]>>,
                            None, None, NoResponse)
    /\ \E c \in DriverConsensusReplies :
          /\ log' = Append(log, Event("consensus", ConsensusScore(c)))
          /\ pc' = IF ConsensusReached(ConsensusScore(c)) THEN "summary" ELSE "loop"
    /\ Generated("J")
    /\ UNCHANGED <<topic, max_rounds, early_stop, round_num, debate_history,
                   history_for_agents, view_a, view_b, last_eval, evaluation,
                   guidance, result, debate_records, response, verify_prompt, calls>>
    /\ UNCHANGED <<earlier, notDriver>>

\* lines 225-239, with JudgeAgent.generate_final_summary
FinalSummary ==
    /\ pc = "summary"
    /\ lastPrompt' = Prompt("J", "summary", topic, debate_records, None, None, NoResponse)
    /\ \E s \in Summaries :
          result' = [topic |-> topic, rounds |-> Len(debate_history),
                     history |-> debate_history, final_summary |-> s]
    /\ log' = Append(log, Event("summary", <<>>))
    /\ Generated("J")
    /\ pc' = "done"
    /\ UNCHANGED <<topic, max_rounds, early_stop, round_num, debate_history,
                   history_for_agents, view_a, view_b, last_eval, evaluation,
                   guidance, debate_records, response, verify_prompt, calls>>
    /\ UNCHANGED <<earlier, notDriver>>

\* An oracle call outside a try block raises: the exception leaves run_debate.
\* evaluate_round has appended its record before the call (line 140).
OracleRaises ==
    /\ pc \in {"A_gen", "B_gen", "J_eval", "J_guid", "consensus", "summary"}
    /\ debate_records' = IF pc = "J_eval" THEN Append(debate_records, JudgeRecord)
                         ELSE debate_records
    /\ pc' = "raised"
    \* the locals of run_debate and of the methods it was in are gone
    /\ round_num' = 0 /\ history_for_agents' = <<>>
    /\ view_a' = None /\ view_b' = None /\ last_eval' = None
    /\ evaluation' = None /\ guidance' = None
    /\ response' = NoResponse /\ verify_prompt' = NoPrompt /\ calls' = <<>>
    /\ log' = Append(log, Event("raised", <<pc>>))
    /\ UNCHANGED <<topic, max_rounds, early_stop, debate_history, result, hist_len,
                   lastPrompt>>
    /\ UNCHANGED <<earlier, notDriver>>

InitDriver ==
    /\ pc = "idle"
    /\ topic = "-" /\ max_rounds = 0 /\ early_stop = TRUE
    /\ round_num = 0
    /\ debate_history = <<>>
    /\ history_for_agents = <<>>
    /\ view_a = None /\ view_b = None /\ last_eval = None
    /\ evaluation = None /\ guidance = None
    /\ result = None
    /\ hist_len = [a \in {"A", "B", "J"} |-> 0]
    /\ debate_records = <<>>
    /\ response = NoResponse /\ verify_prompt = NoPrompt /\ calls = <<>>
    /\ lastPrompt = NoPrompt
    /\ log = <<>>
    /\ earlier = NothingEarlier

\* no DebateTracker exists
NoTracker ==
    /\ data = <<>>
    /\ added = <<>>
    /\ shown = NoShown

Init ==
    /\ InitDriver /\ NoTracker /\ AgentsConstructed
    /\ NoJudgeCall /\ NoExport /\ NoTools /\ NoConsole

Next ==
    \/ StartDebate
    \/ LoopHead
    \/ \E a \in Agents : Gen(a)
    \/ \E a \in Agents : Verify(a)
    \/ \E a \in Agents : Fix(a)
    \/ JudgeEval
    \/ JudgeGuidance
    \/ RecordRound
    \/ CheckConsensus
    \/ FinalSummary
    \/ OracleRaises

Spec == Init /\ [][Next]_vars

\* a DebateTracker has been constructed
TrackerInit ==
    /\ InitDriver /\ InitTracker /\ AgentsConstructed
    /\ NoJudgeCall /\ NoExport /\ NoTools /\ NoConsole

TrackerSpec == TrackerInit /\ [][NextTracker]_vars

\* the module model_loader has been imported
LoaderInit ==
    /\ InitDriver /\ NoTracker /\ InitLoader
    /\ NoJudgeCall /\ NoExport /\ NoTools /\ NoConsole

LoaderSpec == LoaderInit /\ [][NextLoader]_vars

\* the judge is asked for the consensus of two views
JudgeInit ==
    /\ InitDriver /\ NoTracker /\ AgentsConstructed
    /\ InitJudgeCall /\ NoExport /\ NoTools /\ NoConsole

ConsensusSpec == JudgeInit /\ [][NextJudge]_vars

\* results are exported
ExportInit ==
    /\ InitDriver /\ NoTracker /\ AgentsConstructed
    /\ NoJudgeCall /\ NoExport /\ NoTools /\ NoConsole

ExportSpec == ExportInit /\ [][NextExport]_vars

\* the tools are used
ToolsInit ==
    /\ InitDriver /\ NoTracker /\ AgentsConstructed
    /\ NoJudgeCall /\ NoExport /\ InitTools /\ NoConsole

ToolsSpec == ToolsInit /\ [][NextTools]_vars

\* topics are entered at the console
ConsoleInit ==
    /\ InitDriver /\ NoTracker /\ AgentsConstructed
    /\ NoJudgeCall /\ NoExport /\ NoTools /\ InitConsole

InteractiveSpec == ConsoleInit /\ [][NextConsole]_vars

\* run_debate called again and again on one DebateSystem
SessionNext ==
    \/ StartLater
    \/ LoopHead
    \/ \E a \in Agents : Gen(a)
    \/ \E a \in Agents : Verify(a)
    \/ \E a \in Agents : Fix(a)
    \/ JudgeEval
    \/ JudgeGuidance
    \/ RecordRound
    \/ CheckConsensus
    \/ FinalSummary
    \/ OracleRaises

SessionSpec == Init /\ [][SessionNext]_vars

-----------------------------------------------------------------------------
(* Properties of run_debate *)

\* the value logged for step ev of round k
Said(ev, k) ==
    log[CHOOSE j \in DOMAIN log : log[j].ev = ev /\ log[j].round = k].val

HasEvent(ev, k) == \E j \in DOMAIN log : log[j].ev = ev /\ log[j].round = k

LastEvent == log[Len(log)]

\* C1: in every round A's utterance, B's utterance, the judge's evaluation, the
\* appending of the round record and (if made) the consensus check happen in
\* this order, and no step of round k+1 starts before round k is finished:
\* every logged step directly follows the step the order puts before it, and
\* the step in progress is the one that follows the last logged step.
C1_RoundOrder ==
    /\ \A i \in DOMAIN log :
          LET e == log[i] IN
          CASE e.ev = "A" -> \/ i = 1 /\ e.round = 1
                             \/ /\ i > 1
                                /\ log[i - 1].ev \in {"record", "consensus"}
                                /\ log[i - 1].round = e.round - 1
            [] e.ev = "B" -> i > 1 /\ log[i - 1].ev = "A" /\ log[i - 1].round = e.round
            [] e.ev = "J" -> i > 1 /\ log[i - 1].ev = "B" /\ log[i - 1].round = e.round
            [] e.ev = "record" ->
                   i > 1 /\ log[i - 1].ev = "J" /\ log[i - 1].round = e.round
            [] e.ev = "consensus" ->
                   i > 1 /\ log[i - 1].ev = "record" /\ log[i - 1].round = e.round
            [] OTHER -> TRUE
    /\ pc \in {"A_gen", "A_verify", "A_fix"} =>
          \/ log = <<>> /\ round_num = 1
          \/ /\ log # <<>>
             /\ LastEvent.ev \in {"record", "consensus"}
             /\ LastEvent.round = round_num - 1
    /\ pc \in {"B_gen", "B_verify", "B_fix"} =>
          log # <<>> /\ LastEvent.ev = "A" /\ LastEvent.round = round_num
    /\ pc = "J_eval" =>
          log # <<>> /\ LastEvent.ev = "B" /\ LastEvent.round = round_num
    /\ pc \in {"J_guid", "record"} =>
          log # <<>> /\ LastEvent.ev = "J" /\ LastEvent.round = round_num
    /\ pc = "consensus" =>
          /\ log # <<>> /\ LastEvent.ev = "record" /\ LastEvent.round = round_num
          /\ Len(debate_history) = round_num

\* a third round begins after the consensus check of the second
C1_Witness ==
    /\ pc = "B_gen" /\ round_num = 3
    /\ \E i \in DOMAIN log : /\ i > 1 /\ log[i].ev = "A" /\ log[i].round = 3
                             /\ log[i - 1].ev = "consensus"

\* C2: run_debate plays at most max_rounds rounds: the round in progress, the
\* history, and the returned rounds value and history never exceed max_rounds.
C2_AtMostMaxRounds ==
    /\ round_num <= max_rounds
    /\ Len(debate_history) <= max_rounds
    /\ \A i \in DOMAIN log : log[i].round <= max_rounds
    /\ pc = "done" => result.rounds <= max_rounds /\ Len(result.history) <= max_rounds

C2_Witness ==
    pc = "done" /\ max_rounds = MaxRounds /\ result.rounds = max_rounds

\* C3: with early_stop, once a consensus check returns a score at or above
\* CONSENSUS_THRESHOLD no further round is played: the next step is the final
\* summary, and the round of that check is the last entry of the returned
\* history.
C3_StopsAtConsensus ==
    \A i \in DOMAIN log :
        (log[i].ev = "consensus" /\ FracGE(log[i].val, CONSENSUS_THRESHOLD)) =>
            /\ early_stop
            /\ pc \in {"summary", "done", "raised"}
            /\ \A j \in DOMAIN log : j > i => log[j].ev \in {"summary", "raised"}
            /\ Len(debate_history) = log[i].round
            /\ pc = "done" => /\ log[i + 1].ev = "summary"
                              /\ result.history # <<>>
                              /\ result.history[Len(result.history)].round = log[i].round

\* the threshold is reached in round 2 of a debate allowed more rounds
C3_Witness ==
    /\ pc = "done" /\ max_rounds > 2 /\ result.rounds = 2
    /\ \E i \in DOMAIN log :
          log[i].ev = "consensus" /\ FracGE(log[i].val, CONSENSUS_THRESHOLD)

\* debate() of agent a has just returned
JustReturned(a) == pc = (IF a = "A" THEN "B_gen" ELSE "J_eval")

\* C4: every utterance debate() returns has been the subject of a verification
\* call issued after the utterance was generated, a regenerated utterance
\* included.
C4_ReturnedUtteranceVerified ==
    \A a \in Agents :
        JustReturned(a) =>
            \E i \in DOMAIN calls :
                /\ calls[i].kind = "verify"
                /\ calls[i].utter = response
                /\ i > response.call

\* C5: evaluate_round returns its verdict only after a further oracle call has
\* re-verified that verdict.
C5_VerdictReverified ==
    pc = "record" =>
        \E i \in DOMAIN calls : i > 1 /\ calls[i].kind = "verify"

\* C5, amended: evaluate_round returns the reply of its evaluation call as the
\* verdict without any verification call: it makes one oracle call in the
\* final round (the evaluation) and two otherwise (the evaluation, then the
\* guidance), and the verdict is the reply of the first.
C5_VerdictUnverified ==
    pc = "record" =>
        /\ \A i \in DOMAIN calls : calls[i].kind # "verify"
        /\ calls[1].reply = evaluation
        /\ IF round_num = max_rounds
           THEN Len(calls) = 1 /\ calls[1].kind = "evaluate_final" /\ guidance = <<>>
           ELSE /\ Len(calls) = 2
                /\ calls[1].kind = "evaluate" /\ calls[2].kind = "guidance"

C5_Witness == pc = "record" /\ round_num = 2 /\ max_rounds = 2 /\ Len(calls) = 1

\* the last call of the log that produced an utterance
LastUtteranceCall ==
    CHOOSE i \in DOMAIN calls :
        /\ calls[i].kind \in {"generate", "fix"} /\ calls[i].ok
        /\ \A j \in DOMAIN calls :
              (calls[j].kind \in {"generate", "fix"} /\ calls[j].ok) => j <= i

\* debate()'s last oracle call raised, or its reply was not parsable JSON
FailedInsideVerify ==
    /\ calls # <<>>
    /\ \/ ~calls[Len(calls)].ok
       \/ calls[Len(calls)].kind = "verify" /\ calls[Len(calls)].reply.obj = "invalid"

\* C6: an exception raised inside _verify_and_fix_consistency by the
\* verification call, by the parsing of its reply or by the regeneration call
\* does not leave debate(): debate() returns the cleaned form of the utterance
\* held at that moment, the original one if regeneration had not completed.
C6_ExceptionContained ==
    /\ \A i \in DOMAIN log :
          log[i].ev = "raised" =>
             log[i].val[1] \notin {"A_verify", "A_fix", "B_verify", "B_fix"}
    /\ \A a \in Agents :
          (JustReturned(a) /\ FailedInsideVerify) =>
             /\ LastEvent.ev = a
             /\ LastEvent.val = SelectSeq(calls[LastUtteranceCall].reply, IsKept)
             /\ (IF a = "A" THEN view_a ELSE view_b) = LastEvent.val
             /\ LastUtteranceCall = 1

\* the regeneration call raised after a failed check of an utterance that
\* cleaning changes
C6_Witness ==
    /\ JustReturned("B")
    /\ Len(calls) = 3 /\ ~calls[3].ok
    /\ view_b # calls[1].reply

\* the records a prompt of agent a is built from
Other(a) == IF a = "A" THEN "B" ELSE "A"

\* C9: in every prompt a stance agent builds from the debate history (history
\* summary, verification prompt) there is one entry per recorded round, whose
\* "my side" part is that agent's own utterance of the round and whose
\* "opponent" part is the other agent's.
C9_Attribution ==
    lastPrompt.kind \in {"rebuttal", "first_rebuttal", "verify"} =>
        LET a == lastPrompt.agent
            n == IF lastPrompt.kind = "verify"
                 THEN VerifyHistoryChars ELSE HistorySummaryChars
        IN  /\ \A i \in DOMAIN lastPrompt.hist :
                  /\ lastPrompt.hist[i].round = i
                  /\ HasEvent("record", i)
                  /\ lastPrompt.hist[i].my = Slice(Said(a, i), n)
                  /\ lastPrompt.hist[i].opp = Slice(Said(Other(a), i), n)
            /\ (lastPrompt.kind # "first_rebuttal" /\ pc \in {"A_verify", "B_verify"}) =>
                  Len(lastPrompt.hist) = round_num - 1

\* B's prompt in round 3, built from two rounds in which the two sides differ
C9_Witness ==
    /\ lastPrompt.kind = "rebuttal" /\ lastPrompt.agent = "B"
    /\ Len(lastPrompt.hist) = 2
    /\ lastPrompt.hist[1].my # lastPrompt.hist[1].opp
    /\ lastPrompt.hist[2].my # lastPrompt.hist[2].opp

\* C10: the returned dictionary has rounds = len(history); its i-th entry has
\* round number i and holds the A utterance, the B utterance and the judge
\* evaluation produced in round i.
C10_ResultShape ==
    pc = "done" =>
        /\ result.rounds = Len(result.history)
        /\ \A i \in DOMAIN result.history :
              /\ result.history[i].round = i
              /\ HasEvent("A", i) /\ result.history[i].agent_a = Said("A", i)
              /\ HasEvent("B", i) /\ result.history[i].agent_b = Said("B", i)
              /\ HasEvent("J", i) /\ result.history[i].evaluation = Said("J", i)

C10_Witness ==
    /\ pc = "done" /\ result.rounds = 3
    /\ result.history[1].agent_a # result.history[2].agent_a
    /\ result.history[2].agent_a # result.history[2].agent_b

\* the number of steps ev in the current run_debate
Count(ev) == Cardinality({j \in DOMAIN log : log[j].ev = ev})

\* C11: every run_debate that returns has generated the final summary exactly
\* once, as its last step (after every step of the last round played, and only
\* then is there a result), however the rounds ended; the summary prompt is
\* built from the judge's debate_records, which at that moment hold exactly
\* the rounds of the returned history: same round numbers, same A and B
\* utterances.
C11_FinalSummaryOnce ==
    /\ Count("summary") <= 1
    /\ (Count("summary") = 1) <=> (pc = "done")
    /\ pc # "done" => result = None
    /\ pc = "done" =>
          /\ LastEvent.ev = "summary"
          /\ result.final_summary \in Summaries
          /\ lastPrompt.kind = "summary"
          /\ lastPrompt.hist = debate_records
          /\ Len(debate_records) = Len(result.history)
          /\ \A i \in DOMAIN debate_records :
                /\ debate_records[i].round = result.history[i].round
                /\ debate_records[i].agent_a = result.history[i].agent_a
                /\ debate_records[i].agent_b = result.history[i].agent_b
          /\ \/ result.rounds = max_rounds
             \/ early_stop /\ result.rounds > 1 /\ result.rounds < max_rounds

\* a debate stopped early after two rounds in which A and B spoke differently
C11_Witness ==
    /\ pc = "done" /\ early_stop /\ Len(debate_records) = 2 /\ max_rounds = 3
    /\ LastEvent.ev = "summary"
    /\ debate_records[2].agent_a # debate_records[2].agent_b

\* C12: when run_debate starts, the system's debate history, the dialogue
\* histories of A, B and the judge and the judge's debate_records are empty,
\* whatever the calls before it left behind (a call aborted by an exception
\* included); so all through a run these hold the current run's steps only:
\* one history entry per recorded round and one judge record per judged round,
\* with the utterances of this run, and dialogue histories (counted up to
\* MaxHistory) no longer than the oracle calls of this run account for; and the
\* summary prompt and the result are built from these.
C12_FreshStart ==
    /\ (pc = "loop" /\ round_num = 0) =>
          /\ debate_history = <<>>
          /\ debate_records = <<>>
          /\ \A a \in {"A", "B", "J"} : hist_len[a] = 0
    /\ pc \notin {"idle", "raised"} =>
          /\ Len(debate_history) = Count("record")
          /\ Len(debate_records) = Count("J")
          /\ \A i \in DOMAIN debate_records :
                /\ debate_records[i].round = i
                /\ debate_records[i].agent_a = Said("A", i)
                /\ debate_records[i].agent_b = Said("B", i)
          /\ \A i \in DOMAIN debate_history :
                /\ debate_history[i].round = i
                /\ debate_history[i].agent_a = Said("A", i)
                /\ debate_history[i].agent_b = Said("B", i)
                /\ debate_history[i].evaluation = Said("J", i)
          /\ \A a \in Agents :
                pc = PcOf(a, "gen") => /\ hist_len[a] >= Min(2 * Count(a), MaxHistory)
                                       /\ hist_len[a] <= 2 * (MaxRetries + 1) * Count(a)
          /\ hist_len["J"] >= Min(2 * (Count("J") + Count("consensus") + Count("summary")),
                                  MaxHistory)
          /\ hist_len["J"] <= 2 * (2 * Count("J") + Count("consensus") + Count("summary"))
    /\ pc = "done" =>
          /\ lastPrompt.hist = debate_records
          /\ result.history = debate_history

\* a debate has returned two rounds on a system whose run_debate before was
\* aborted by an exception in the judge's evaluation of round 1, which left a
\* judge record, dialogue histories and no history entry behind
C12_Witness ==
    /\ pc = "done" /\ result.rounds = 2
    /\ earlier.how = "raised" /\ earlier.records /\ earlier.dialogue
    /\ ~earlier.history

\* C13: with early_stop disabled no consensus check is ever made, and a
\* run_debate with max_rounds >= 1 that returns has played exactly max_rounds
\* rounds, whatever the oracle replied.
C13_NoEarlyStop ==
    (~early_stop /\ pc \notin {"idle", "raised"}) =>
        /\ pc # "consensus"
        /\ Count("consensus") = 0
        /\ lastPrompt.kind # "consensus"
        /\ pc = "summary" => round_num = max_rounds
        /\ (pc = "done" /\ max_rounds >= 1) =>
              /\ result.rounds = max_rounds
              /\ Count("record") = max_rounds

\* a debate without early stop has returned after all of its three rounds
C13_Witness ==
    /\ pc = "done" /\ ~early_stop /\ max_rounds = 3
    /\ result.rounds = 3 /\ Count("consensus") = 0

\* the guidance calls evaluate_round has made in the current round
GuidanceCalls == Cardinality({i \in DOMAIN calls : calls[i].kind = "guidance"})

\* C14: for the round that turns out to be the last one played the judge got
\* the final-round prompt, made no guidance call and returned an empty
\* guidance string.
C14_NoGuidanceForLastRound ==
    (pc \in {"summary", "done"} /\ debate_history # <<>>) => guidance = <<>>

\* C14, amended: no guidance is generated for round max_rounds: there the
\* judge is given the final-round prompt, makes no guidance call and returns
\* an empty guidance string.  In every round before max_rounds it is given the
\* ordinary prompt, makes one guidance call and returns its reply, also when
\* the debate then stops early and that round is the last one played.
C14_GuidanceBeforeMaxRounds ==
    /\ pc = "record" =>
          /\ calls[1].kind = (IF round_num = max_rounds THEN "evaluate_final"
                                                         ELSE "evaluate")
          /\ GuidanceCalls = (IF round_num = max_rounds THEN 0 ELSE 1)
          /\ (lastPrompt.kind = "guidance") <=> (round_num < max_rounds)
          /\ (lastPrompt.kind = "evaluate_final") <=> (round_num = max_rounds)
          /\ guidance = (IF round_num = max_rounds THEN <<>> ELSE calls[Len(calls)].reply)
          /\ round_num < max_rounds => guidance \in Guidances
    /\ (pc \in {"summary", "done"} /\ debate_history # <<>>) =>
          (guidance = <<>>) <=> (debate_history[Len(debate_history)].round = max_rounds)

\* a debate of up to three rounds has stopped after round 2, for which the
\* judge had generated guidance
C14_Witness ==
    /\ pc = "done" /\ max_rounds = 3 /\ result.rounds = 2
    /\ guidance \in Guidances

\* the positions of run_debate inside the debate() call of agent a
InDebateOf(a) == pc \in {PcOf(a, "gen"), PcOf(a, "verify"), PcOf(a, "fix")}

\* what round i produced
RecordOf(i) == [round |-> i, agent_a |-> Said("A", i), agent_b |-> Said("B", i),
                evaluation |-> Said("J", i)]

\* C20: in round k agent A is given B's utterance of round k-1 as opponent
\* view and B is given A's utterance of round k; both are given the judge's
\* evaluation of round k-1 as feedback and the same history snapshot, made of
\* the records of rounds 1..k-1 (no view, feedback or history in round 1);
\* the snapshot stays as it is when the record of round k is appended.  The
\* prompt built from these arguments carries them.
C20_ArgumentsOfRound ==
    /\ (round_num >= 1 /\ pc \notin {"idle", "raised"}) =>
          /\ Len(history_for_agents) = round_num - 1
          /\ \A i \in DOMAIN history_for_agents : history_for_agents[i] = RecordOf(i)
    /\ (InDebateOf("A") \/ InDebateOf("B")) =>
          last_eval = (IF round_num = 1 THEN None ELSE Said("J", round_num - 1))
    /\ InDebateOf("A") =>
          view_b = (IF round_num = 1 THEN None ELSE Said("B", round_num - 1))
    /\ InDebateOf("B") => view_a = Said("A", round_num)
    /\ \A a \in Agents :
          pc = PcOf(a, "verify") =>
              /\ lastPrompt.agent = a
              /\ lastPrompt.kind = (IF a = "A" /\ round_num = 1 THEN "opening"
                                    ELSE IF round_num = 1 THEN "first_rebuttal"
                                    ELSE "rebuttal")
              /\ lastPrompt.opp_view = (IF a = "A" THEN view_b ELSE view_a)
              /\ lastPrompt.feedback = last_eval
              /\ Len(lastPrompt.hist) = round_num - 1

\* A has spoken in round 3, given B's utterance of round 2 (which differs from
\* its own), the evaluation of round 2 and the records of rounds 1 and 2
C20_Witness ==
    /\ pc = "A_verify" /\ round_num = 3
    /\ lastPrompt.agent = "A" /\ lastPrompt.opp_view = Said("B", 2)
    /\ Said("B", 2) # Said("A", 2)
    /\ Len(history_for_agents) = 2 /\ Len(debate_history) = 2

\* s[i..j] is an object whose members are plain members
FlatObject(s, i, j) ==
    /\ i < j /\ s[i] = "{" /\ s[j] = "}"
    /\ \A k \in (i + 1)..(j - 1) : s[k] \in JsonMembers

\* position k of s[i..j] is a member of the object itself, not of an object
\* in a list of it
OwnMember(s, i, k) ==
    /\ s[k] \in JsonMembers
    /\ \A a \in (i + 1)..(k - 1) :
          s[a] = "[" => \E b \in (a + 1)..(k - 1) : s[b] = "]"

\* s[i..j] is a JSON object: plain members, and at most one list of one object
ParsableObject(s, i, j) ==
    \/ FlatObject(s, i, j)
    \/ /\ i < j /\ s[i] = "{" /\ s[j] = "}"
       /\ \E a, b \in (i + 1)..(j - 1) :
             /\ a < b /\ s[a] = "[" /\ s[b] = "]"
             /\ FlatObject(s, a + 1, b - 1)
             /\ \A k \in ((i + 1)..(a - 1)) \cup ((b + 1)..(j - 1)) :
                   s[k] \in JsonMembers

\* the object s[i..j] has the value val under key (its last member with the key)
HasValue(s, i, j, key, val) ==
    \E k \in (i + 1)..(j - 1) :
        /\ OwnMember(s, i, k) /\ KeyOf(s[k]) = key /\ ValueOf(s[k]) = val
        /\ \A k2 \in (k + 1)..(j - 1) :
              OwnMember(s, i, k2) => KeyOf(s[k2]) # key

\* the reply contains a parsable brace-delimited JSON object in which
\* consistent or attribution_correct is false
ContainsFalseObject(s) ==
    \E i, j \in DOMAIN s :
        /\ ParsableObject(s, i, j)
        /\ \/ HasValue(s, i, j, "consistent", "false")
           \/ HasValue(s, i, j, "attribution_correct", "false")

\* the first brace pair of the reply that encloses no brace is a JSON object
\* in which consistent or attribution_correct is present and falsy
FirstSnippetFalsy(s) ==
    \E i, j \in DOMAIN s :
        /\ i < j /\ s[i] = "{" /\ s[j] = "}"
        /\ \A k \in (i + 1)..(j - 1) : ~IsBrace(s[k])
        /\ \A i2, j2 \in DOMAIN s :
              (/\ i2 < j2 /\ s[i2] = "{" /\ s[j2] = "}"
               /\ \A k \in (i2 + 1)..(j2 - 1) : ~IsBrace(s[k])) => j <= j2
        /\ FlatObject(s, i, j)
        /\ \E key \in {"consistent", "attribution_correct"} :
              \E val \in {"false", "null"} : HasValue(s, i, j, key, val)

\* the text of the verification reply of the debate() call that has just
\* returned, <<>> when the verification call raised
VerificationText == IF calls[2].ok THEN calls[2].reply.text ELSE <<>>

\* the oracle calls of a debate() call that has returned: the generation, one
\* verification and at most one regeneration
TwoOrThreeCalls ==
    /\ Len(calls) \in {2, 3}
    /\ calls[1].kind = "generate" /\ calls[1].ok
    /\ calls[2].kind = "verify"
    /\ Len(calls) = 3 => calls[3].kind = "fix"

\* C21: _verify_and_fix_consistency replaces the utterance by a regenerated one
\* exactly when the verification reply contains a parsable brace-delimited
\* JSON object in which consistent or attribution_correct is false, and
\* returns the cleaned original utterance in every other case; a debate() call
\* that returns has made one generation call, exactly one verification call
\* and at most one regeneration call.
C21_RegeneratedIffFalseObject ==
    \A a \in Agents :
        JustReturned(a) =>
            /\ TwoOrThreeCalls
            /\ IF ContainsFalseObject(VerificationText)
               THEN /\ Len(calls) = 3 /\ calls[3].ok
                    /\ LastEvent.val = _clean_response(calls[3].reply)
               ELSE /\ Len(calls) = 2
                    /\ LastEvent.val = _clean_response(calls[1].reply)

\* C21, amended: _verify_and_fix_consistency makes the regeneration call
\* exactly when the verification call returns a reply whose first brace pair
\* enclosing no other brace parses as a JSON object in which consistent or
\* attribution_correct is present and falsy (false, null), and returns the
\* cleaned regenerated utterance when that call returns; in every other case
\* (the verification call raises, no such brace pair, a pair that is not JSON,
\* both flags truthy or absent, the regeneration call raises) it returns the
\* cleaned original utterance.  A debate() call that returns has made one
\* generation call, exactly one verification call and at most one
\* regeneration call, and no step of it is taken twice.
C21_RegeneratedIffFirstSnippetFalsy ==
    /\ \A a \in Agents :
          JustReturned(a) =>
              /\ TwoOrThreeCalls
              /\ LastEvent.ev = a
              /\ (IF a = "A" THEN view_a ELSE view_b) = LastEvent.val
              /\ IF FirstSnippetFalsy(VerificationText)
                 THEN /\ Len(calls) = 3
                      /\ LastEvent.val = _clean_response(IF calls[3].ok THEN calls[3].reply
                                                         ELSE calls[1].reply)
                 ELSE /\ Len(calls) = 2
                      /\ LastEvent.val = _clean_response(calls[1].reply)
    /\ pc \in {"A_verify", "B_verify"} => Len(calls) = 1
    /\ pc \in {"A_fix", "B_fix"} => Len(calls) = 2

\* B's utterance was regenerated after a verification reply whose consistent
\* flag is null, and the regenerated utterance differs from the original
C21_Witness ==
    /\ JustReturned("B")
    /\ Len(calls) = 3 /\ calls[3].ok
    /\ calls[2].ok /\ calls[2].reply.text = <<"{", "c=null", "t=true", "}">>
    /\ view_b = _clean_response(calls[3].reply)
    /\ view_b # _clean_response(calls[1].reply)

-----------------------------------------------------------------------------
(* Properties of check_consensus *)

\* the reply carries the score label
HasScoreLabel(reply) == \E i \in DOMAIN reply : reply[i] = "SCORE"

\* The positions of the rating: those after the first score label and before
\* the first newline or further label that follows it
RatingPositions(reply) ==
    { j \in DOMAIN reply :
        \E i \in DOMAIN reply :
            /\ reply[i] = "SCORE" /\ \A h \in 1..(i - 1) : reply[h] # "SCORE"
            /\ i < j
            /\ \A h \in (i + 1)..j : reply[h] \notin {"NL", "SCORE"} }

\* a number can be parsed from the rating: it has a decimal digit, at most
\* one dot and no other digit-like character
RatingParses(reply) ==
    LET at == RatingPositions(reply)
    IN  /\ \E j \in at : reply[j] \in Digits
        /\ Cardinality({j \in at : reply[j] = "."}) <= 1
        /\ \A j \in at : reply[j] \notin SuperscriptDigits

\* C15: for every oracle reply check_consensus returns (it raises nothing) a
\* score within [0, 1]; when the reply has no score label the score is 0.5,
\* and so it is whenever no number can be parsed from the rating (no digit,
\* a malformed number).
C15_ScoreInRange ==
    consensus_return.called =>
        LET score == consensus_return.score
        IN  /\ score.d > 0 /\ 0 <= score.n /\ score.n <= score.d
            /\ ~HasScoreLabel(consensus_response) => score = [n |-> 1, d |-> 2]
            /\ (HasScoreLabel(consensus_response) /\ ~RatingParses(consensus_response))
                   => score = [n |-> 1, d |-> 2]
            /\ consensus_return.response = consensus_response

\* the rating ".5." is malformed: the default is returned
C15_Witness ==
    /\ consensus_return.called
    /\ consensus_response = <<"SCORE", ".", "5", ".">>
    /\ consensus_return.score = [n |-> 1, d |-> 2]

\* the characters of the rating line: those at the rating positions, in order
RatingLine(reply) ==
    LET at == RatingPositions(reply)
        first == CHOOSE j \in at : \A h \in at : j <= h
    IN  IF at = {} THEN <<>>
        ELSE [x \in 1..Cardinality(at) |-> reply[first + x - 1]]

\* the rating the line carries: the run of digits and dots that starts at the
\* first digit or dot of the line, <<>> when the line has none
RatingOf(line) ==
    LET numeric == {j \in DOMAIN line : line[j] \in Digits \cup {"."}}
        first   == CHOOSE j \in numeric : \A h \in numeric : j <= h
        last    == CHOOSE j \in numeric :
                      /\ j >= first
                      /\ \A h \in first..j : h \in numeric
                      /\ (j + 1) \notin numeric
    IN  IF numeric = {} THEN <<>> ELSE SubSeq(line, first, last)

\* the line carries a rating r in 0..100: a number with a digit and at most
\* one dot, not above 100
CarriesRating(reply) ==
    LET rating == RatingOf(RatingLine(reply))
    IN  /\ HasScoreLabel(reply)
        /\ \E j \in DOMAIN rating : rating[j] \in Digits
        /\ Cardinality({j \in DOMAIN rating : rating[j] = "."}) <= 1
        /\ FloatOf(rating).n <= 100 * FloatOf(rating).d

\* C22: whenever the consensus reply has a score line carrying a rating r in
\* 0..100, check_consensus returns the score r/100, whatever other characters
\* follow the rating on that line.
C22_ScoreIsRating ==
    (consensus_return.called /\ CarriesRating(consensus_response)) =>
        LET r == FloatOf(RatingOf(RatingLine(consensus_response)))
        IN  consensus_return.score = Frac(r.n, 100 * r.d)

-----------------------------------------------------------------------------
(* Properties of export_debate_result *)

\* the path p ends in the extension ext
HasExtension(p, ext) == \E k \in DOMAIN p : SubSeq(p, k, Len(p)) = ext

\* the serialisation the call should use
Serialisation(p, f) ==
    IF f # NoFormat THEN f
    ELSE IF p # None /\ HasExtension(p, <<".", "m", "d">>) THEN "markdown"
    ELSE IF p # None /\ HasExtension(p, <<".", "t", "x", "t">>) THEN "text"
    ELSE "json"

\* C16: for every (output_path, format) an explicitly given format wins;
\* otherwise a path ending in .md gives markdown, one ending in .txt gives
\* text, and any other path or no path gives JSON.  A format other than
\* json/markdown/text raises ValueError and no file is written; a call that
\* returns has written the one file it names, in the chosen serialisation.
C16_FormatChoice ==
    export_call.outcome # "none" =>
        LET p == export_call.output_path
            f == export_call.format
            expected == Serialisation(p, f)
        IN  /\ export_call.chosen = expected
            /\ (expected \notin {"json", "markdown", "text"})
                   <=> (export_call.outcome = "ValueError")
            /\ export_call.outcome # "returned" => files = export_call.before
            /\ export_call.outcome = "returned" =>
                  /\ p # None => export_call.returned = p
                  /\ [path |-> export_call.returned, serialisation |-> expected]
                         \in files
                  /\ \A g \in files \cup export_call.before :
                        g.path # export_call.returned
                           => (g \in files <=> g \in export_call.before)
                  /\ \A g, h \in files : g.path = h.path => g = h

\* text was asked for explicitly with a path ending in .md, where an earlier
\* call had written markdown
C16_Witness ==
    /\ export_call.outcome = "returned"
    /\ export_call.output_path = <<"a", ".", "m", "d">>
    /\ export_call.format = "text"
    /\ [path |-> <<"a", ".", "m", "d">>, serialisation |-> "markdown"]
          \in export_call.before
    /\ [path |-> <<"a", ".", "m", "d">>, serialisation |-> "text"] \in files

-----------------------------------------------------------------------------
(* Properties of the tools *)

-----------------------------------------------------------------------------
(* Properties of interactive_mode *)

\* the topic entered in the latest pass, stripped
EnteredTopic == strip(console_last.topic)

EnteredQuit == lower(EnteredTopic) \in QuitWords

\* C19: in interactive_mode an entered topic that is non-empty after stripping
\* and is no quit word starts exactly one run_debate (for that topic); an
\* empty topic starts none and the prompt comes again; a quit word (in any
\* case) ends the loop without a debate, and nothing else ends the loop as
\* long as the debates return; a rounds answer that is not all digits selects
\* MAX_DEBATE_ROUNDS.
C19_InteractiveLoop ==
    console_last.n > 0 =>
        /\ (EnteredTopic # <<>> /\ ~EnteredQuit) =>
              /\ Len(started) = console_last.before + 1
              /\ started[Len(started)].topic = EnteredTopic
              /\ ~isdigit(strip(console_last.rounds)) =>
                    started[Len(started)].max_rounds = MAX_DEBATE_ROUNDS
        /\ EnteredTopic = <<>> =>
              Len(started) = console_last.before /\ console_pc = "prompt"
        /\ EnteredQuit =>
              Len(started) = console_last.before /\ console_pc = "ended"
        /\ console_pc # "prompt" =>
              EnteredQuit \/ console_last.error = "run_debate"

-----------------------------------------------------------------------------
(* Properties of DebateTracker *)

\* the arguments parsed from the speeches added for an agent, in the order added
RECURSIVE ParsedFrom(_)
ParsedFrom(speeches) ==
    IF speeches = <<>> THEN <<>>
    ELSE parse_speech(speeches[1].speech, speeches[1].round).arguments
         \o ParsedFrom(Tail(speeches))

IsPrefix(p, q) == Len(p) <= Len(q) /\ \A i \in 1..Len(p) : p[i] = q[i]

TheOther(agent) == CHOOSE x \in TrackerAgents : x # agent

\* C8: after any sequence of add_speech calls, the history built for agent X
\* lists as its own only arguments parsed from the speeches added for X, and
\* as the opponent's only arguments parsed from the speeches added for the
\* other agent, each in the order added (the first ShownArguments of them);
\* each add_speech(X, ...) has appended exactly one round record to X's rounds,
\* and the other agent's rounds and the topic are as they were.
C8_TrackerAttribution ==
    /\ data.topic = added.topic
    /\ \A x \in TrackerAgents :
          /\ Len(data[x].rounds) = Len(added[x])
          /\ \A i \in 1..Len(added[x]) :
                data[x].rounds[i] = parse_speech(added[x][i].speech, added[x][i].round)
    /\ shown # NoShown =>
          /\ IsPrefix(shown.my, ParsedFrom(added[shown.agent]))
          /\ Len(shown.my) = Min(ShownArguments, Len(ParsedFrom(added[shown.agent])))
          /\ IsPrefix(shown.opp, ParsedFrom(added[TheOther(shown.agent)]))
          /\ Len(shown.opp) = Min(ShownArguments, Len(ParsedFrom(added[TheOther(shown.agent)])))

\* the history built for agent_b after speeches of both sides that differ,
\* with five or more arguments parsed in all
C8_Witness ==
    /\ shown.agent = "agent_b"
    /\ shown.my # <<>> /\ shown.opp # <<>> /\ shown.my # shown.opp
    /\ Len(ParsedFrom(added.agent_a)) + Len(ParsedFrom(added.agent_b)) > 4

-----------------------------------------------------------------------------
(* Properties of QwenModel *)

\* C7: for any sequence of QwenModel() constructions every construction
\* returns the same instance, and the model and tokenizer are loaded exactly
\* once, by the first construction: no later construction triggers a load.
C7_LoadedOnceByFirst ==
    \A i \in DOMAIN constructions :
        /\ constructions[i].returned => constructions[i].instance = constructions[1].instance
        /\ constructions[i].loads <=> i = 1

\* C7, amended: every construction gets the same instance; a construction
\* triggers a load exactly when no earlier construction has set the model
\* handle, so the first construction loads, the model is loaded successfully
\* at most once, and once a construction has returned no later one triggers
\* a load; a construction that follows a load that failed before the handle
\* was set loads again.
C7_SingletonLoad ==
    /\ \A i \in DOMAIN constructions :
          /\ constructions[i].instance = constructions[1].instance
          /\ constructions[i].loads <=>
                \A j \in 1..(i - 1) : ~constructions[j].model_loaded
          /\ constructions[i].returned =>
                \A j \in DOMAIN constructions : j > i => ~constructions[j].loads
    /\ Cardinality({i \in DOMAIN constructions : constructions[i].model_loaded}) <= 1
    /\ q_instance = (IF constructions = <<>> THEN 0 ELSE constructions[1].instance)

\* a failed first load, a second construction that loads and returns, and a
\* third that returns without loading
C7_Witness ==
    /\ Len(constructions) >= 3
    /\ ~constructions[1].returned /\ constructions[1].tokenizer_loaded
    /\ constructions[2].loads /\ constructions[2].returned
    /\ ~constructions[3].loads /\ constructions[3].returned

\* construction i ran _load_model and the load failed: QwenModel() raised
\* ModelLoadError instead of returning
LoadFailed(i) == constructions[i].loads /\ ~constructions[i].returned

\* C23: if the load of the tokenizer or of the model fails, QwenModel() raises
\* ModelLoadError, the model handle stays unset, and the next QwenModel()
\* construction runs a complete load again (tokenizer included) instead of
\* returning around the handle the failed load left.
C23_FailedLoadRetried ==
    \A i \in DOMAIN constructions :
        LoadFailed(i) =>
            /\ i = Len(constructions) => q_model = "None"
            /\ i < Len(constructions) =>
                  /\ constructions[i + 1].loads
                  /\ constructions[i + 1].returned =>
                        /\ constructions[i + 1].tokenizer_loaded
                        /\ constructions[i + 1].model_loaded

====
